---- MODULE Spec2Model ----
(***************************************************************************)
(* Container-movement dashboard (src/dashboard.py, src/database).          *)
(*                                                                         *)
(* One run of the Streamlit script is one action: the cached load_data()   *)
(* (connect, five queries, close, label enrichment, date coercion), the    *)
(* sidebar widgets, the filter pass and the rendered elements.  The        *)
(* database, the clock, the cache of st.cache_data(ttl=600) and the        *)
(* connections left open are the state that survives between runs.         *)
(*                                                                         *)
(* Values.  SQL NULL / None / NaN is the sentinel Null; text columns are   *)
(* strings.  A calendar date is a day number >= 1, NaT the missing date.   *)
(* A pandas frame is the sequence of its rows, a row a function from the   *)
(* column names to values.  sorted(unique()) is represented by the set of  *)
(* the values.  Only the columns that load_data() or the filters read are  *)
(* kept; the other selected columns are carried through untouched by the   *)
(* code.  pandas' min()/max() skip missing values (skipna=True) and an     *)
(* ordering comparison with a missing value is False.                      *)
(***************************************************************************)
EXTENDS Integers, Sequences, FiniteSets, TLC

VARIABLES
    db,             \* the database: movimiento_contenedores and the four lookups
    now,            \* the clock, in seconds
    advances,       \* how many times the clock has been advanced
    faults,         \* failures the environment may still inject
    cache,          \* the entry st.cache_data keeps for load_data()
    last_run,       \* the last execution of load_data()'s body
    attempts,       \* mysql.connector.connect calls made by load_data()
    open_conns,     \* connections opened and not closed, per function
    df,             \* what load_data() returned to the last run
    control,        \* the sidebar control shown for each filter column
    filter_values,  \* filter_values of the last run
    df_filtered,    \* df_filtered of the last run
    ui              \* the elements the last run put on the page

vars == <<db, now, advances, faults, cache, last_run, attempts, open_conns,
          df, control, filter_values, df_filtered, ui>>

----------------------------------------------------------------------------
(* Bounds of the model *)

MaxRows == 2
MaxDay == 2
MaxAdvances == 2
MaxFaults == 2
MaxLoads == 3

(* Program constants *)

TTL == 600
NaT == 0
BadDate == -1

Null == "<NULL>"
Desconocido == "Desconocido"

----------------------------------------------------------------------------
(* Columns *)

RawCols ==
    {"id", "operator", "loading_port", "discharge_port", "delivery_port",
     "arrival_date", "departure_date", "status", "full_empty", "eqd_qual",
     "port_register"}

DerivedCols ==
    {"status_", "full_/_empty_", "port_register_", "loading_port_", "eqd_-_qual"}

DfCols == RawCols \cup DerivedCols

filter_cols ==
    <<"operator", "loading_port_", "discharge_port", "arrival_date",
      "departure_date", "status_", "full_/_empty_", "port_register_">>

DateCols == {"arrival_date", "departure_date"}

DiscreteCols == {filter_cols[i] : i \in 1..Len(filter_cols)} \ DateCols

----------------------------------------------------------------------------
(* Small helpers on sequences *)

Range(s) == {s[i] : i \in 1..Len(s)}

Reverse(s) == [i \in 1..Len(s) |-> s[Len(s) + 1 - i]]

SetMax(S) == CHOOSE x \in S : \A y \in S : y <= x

SetMin(S) == CHOOSE x \in S : \A y \in S : x <= y

----------------------------------------------------------------------------
(* load_data(): the data access boundary *)

MySQLError == "mysql.connector.Error"

PandasDatabaseError == "pandas.errors.DatabaseError"

\* The steps of load_data() that talk to the server, in program order.
LoadSteps ==
    <<"connect", "query_movimientos", "df_status", "df_content", "df_ports",
      "df_eqd_qual">>

NoFault == [at |-> "none", exc |-> "none"]

\* What can go wrong in one load: connect() raises mysql.connector.Error; a
\* pd.read_sql raises either the driver's error (raised while fetching) or
\* the pandas.errors.DatabaseError pandas wraps a failed execute in.
Faults ==
    {NoFault} \cup {[at |-> "connect", exc |-> MySQLError]}
    \cup {[at |-> LoadSteps[i], exc |-> e] :
             i \in 2..Len(LoadSteps), e \in {MySQLError, PandasDatabaseError}}

\* df.set_index(code)[description].to_dict(): a later row of the same code
\* replaces an earlier one.
ToDict(table) ==
    [k \in {table[i][1] : i \in 1..Len(table)} |->
        table[SetMax({i \in 1..Len(table) : table[i][1] = k})][2]]

\* str(x) / astype(str) of a text value or of None.
Str(x) == IF x = Null THEN "None" ELSE x

\* series.map(lookup).fillna('Desconocido')
MapFillna(code, lookup) ==
    IF code \in DOMAIN lookup /\ lookup[code] # Null
    THEN lookup[code]
    ELSE Desconocido

\* Mutant of map_loading_port: the placeholder instead of the raw code.
map_loading_port_Placeholder(code, ports_map) ==
    IF code = Null THEN ""
    ELSE IF code \in DOMAIN ports_map THEN ports_map[code]
    ELSE Desconocido

\* ports_map.get(str(code), code), and '' for None / NaN.
map_loading_port(code, ports_map) ==
    IF code = Null THEN ""
    ELSE IF Str(code) \in DOMAIN ports_map THEN ports_map[Str(code)]
    ELSE code

\* pd.to_datetime(x, errors='coerce').dt.date
ToDate(raw) == IF raw >= 1 THEN raw ELSE NaT

\* SELECT ... FROM movimiento_contenedores ORDER BY -id (the table is kept in
\* id order).
QueryMovimientos(d) == Reverse(d.movimientos)

EnrichRow(row, d) ==
    LET status_map == ToDict(d.estatus_contenedor)
        content_map == ToDict(d.contenido_contenedor)
        ports_map == ToDict(d.puertosInternacionales)
        eqd_qual_map == ToDict(d.calificador_de_equipo)
    IN  [c \in DfCols |->
           CASE c = "status_" -> MapFillna(row["status"], status_map)
             [] c = "full_/_empty_" -> MapFillna(row["full_empty"], content_map)
             [] c = "port_register_" -> map_loading_port(row["port_register"], ports_map)
             [] c = "loading_port_" -> map_loading_port(row["loading_port"], ports_map)
             [] c = "discharge_port" -> map_loading_port(row["discharge_port"], ports_map)
             [] c = "delivery_port" -> map_loading_port(row["delivery_port"], ports_map)
             [] c = "eqd_-_qual" -> MapFillna(row["eqd_qual"], eqd_qual_map)
             [] c = "arrival_date" -> ToDate(row["arrival_date"])
             [] c = "departure_date" -> ToDate(row["departure_date"])
             [] OTHER -> row[c]]

Enrich(d) ==
    LET rows == QueryMovimientos(d)
    IN  [i \in 1..Len(rows) |-> EnrichRow(rows[i], d)]

\* The handler of load_data(): except mysql.connector.Error.
Caught(exc) == exc = MySQLError

ErrorMsgs == {"error", "hint"}

\* One execution of load_data()'s body under a fault.
\*   outcome : "ok" (returned the frame), "caught" (returned pd.DataFrame()),
\*             "raised" (the exception left load_data)
\*   opened  : connect() returned a connection
\*   closed  : conn.close() was reached
\*   msgs    : the st.error / st.info the body emitted
LoadData(d, fault) ==
    IF fault = NoFault
    THEN [outcome |-> "ok", value |-> Enrich(d), opened |-> TRUE,
          closed |-> TRUE, msgs |-> {}]
    ELSE [outcome |-> IF Caught(fault.exc) THEN "caught" ELSE "raised",
          value |-> <<>>,
          opened |-> fault.at # "connect",
          closed |-> FALSE,
          msgs |-> IF Caught(fault.exc) THEN ErrorMsgs ELSE {}]

----------------------------------------------------------------------------
(* st.cache_data(ttl=600) around load_data() *)

NoEntry == [valid |-> FALSE, value |-> <<>>, at |-> 0, msgs |-> {}]

\* An entry is served while it is younger than the ttl.
CacheFresh == cache.valid /\ now < cache.at + TTL

\* A call of the cached load_data(): a fresh entry is returned (its recorded
\* st elements replayed) without running the body; otherwise the body runs,
\* and its return value is stored unless it raised.
CachedLoad(fault) ==
    IF CacheFresh
    THEN [hit |-> TRUE, outcome |-> "hit", value |-> cache.value,
          opened |-> FALSE, closed |-> FALSE, msgs |-> cache.msgs,
          entry |-> cache]
    ELSE LET r == LoadData(db, fault)
         IN  [hit |-> FALSE, outcome |-> r.outcome, value |-> r.value,
              opened |-> r.opened, closed |-> r.closed, msgs |-> r.msgs,
              entry |-> IF r.outcome = "raised" THEN NoEntry
                        ELSE [valid |-> TRUE, value |-> r.value, at |-> now,
                              msgs |-> r.msgs]]

----------------------------------------------------------------------------
(* The sidebar: one control per filter column *)

ColValues(frame, col) == {frame[i][col] : i \in 1..Len(frame)}

ValidDates(frame, col) == ColValues(frame, col) \ {NaT}

\* df[col].min() / df[col].max(): missing when the column has no valid date.
min_date(frame, col) ==
    IF ValidDates(frame, col) = {} THEN NaT ELSE SetMin(ValidDates(frame, col))

max_date(frame, col) ==
    IF ValidDates(frame, col) = {} THEN NaT ELSE SetMax(ValidDates(frame, col))

\* sorted(df[col].unique()) for the two names of the elif branch,
\* sorted(df[col].astype(str).unique()) otherwise.
unique_options(frame, col) ==
    IF col \in {"status_desc", "full_empty_"}
    THEN ColValues(frame, col)
    ELSE {Str(v) : v \in ColValues(frame, col)}

\* Mutant of ControlOf: no case for min_date == max_date, the slider is
\* offered for a single day too.
ControlOf_AlwaysSlider(frame, col) ==
    IF col \in DateCols
    THEN IF ValidDates(frame, col) = {} THEN "warning" ELSE "slider"
    ELSE "multiselect"

\* Which control the loop over filter_cols shows for a column.
ControlOf(frame, col) ==
    IF col \in DateCols
    THEN IF min_date(frame, col) = NaT \/ max_date(frame, col) = NaT
         THEN "warning"
         ELSE IF min_date(frame, col) = max_date(frame, col)
              THEN "info"
              ELSE "slider"
    ELSE "multiselect"

Controls(frame) ==
    [col \in Range(filter_cols) |-> ControlOf(frame, col)]

\* The columns that get an entry in filter_values (a date column without a
\* valid date is skipped by the continue).
ActiveCols(frame) ==
    {col \in Range(filter_cols) : ControlOf(frame, col) # "warning"}

\* The arguments that give a widget its identity: a widget whose arguments
\* differ from the last run's is a new widget and starts from its default.
WidgetArgs(frame, col) ==
    IF frame = <<>> THEN <<"absent">>
    ELSE IF col \in DateCols
         THEN <<ControlOf(frame, col), min_date(frame, col), max_date(frame, col)>>
         ELSE <<ControlOf(frame, col), unique_options(frame, col)>>

\* value=(min_date, max_date) / default=unique_options
DefaultValue(frame, col) ==
    IF col \in DateCols
    THEN <<min_date(frame, col), max_date(frame, col)>>
    ELSE unique_options(frame, col)

\* What the user can set a control of the page to: a sub-range of a slider,
\* a subset of a multiselect's options.
UserValues(frame, col) ==
    LET lo == min_date(frame, col)
        hi == max_date(frame, col)
    IN  CASE ControlOf(frame, col) = "slider" ->
               {p \in (lo..hi) \X (lo..hi) : p[1] <= p[2]}
          [] ControlOf(frame, col) = "multiselect" ->
               SUBSET unique_options(frame, col)
          [] OTHER -> {}

\* filter_values as the loop over filter_cols builds it on frame.  session:
\* "new" (every widget at its default) or "rerun" (a widget keeps the value
\* of the last run, the one the user has just set takes that value).
BuildFilterValues(frame, session, set_col, set_value) ==
    [col \in ActiveCols(frame) |->
        IF session = "new" \/ WidgetArgs(frame, col) # WidgetArgs(df, col)
        THEN DefaultValue(frame, col)
        ELSE IF col = set_col THEN set_value
        ELSE filter_values[col]]

----------------------------------------------------------------------------
(* The filter pass *)

\* Mutants of DateKeep: a bound compared strictly.
DateKeep_LowerExclusive(v, selected_values) ==
    v # NaT /\ v > selected_values[1] /\ v <= selected_values[2]

DateKeep_UpperExclusive(v, selected_values) ==
    v # NaT /\ v >= selected_values[1] /\ v < selected_values[2]

\* (df_filtered[col] >= start_date) & (df_filtered[col] <= end_date)
DateKeep(v, selected_values) ==
    v # NaT /\ v >= selected_values[1] /\ v <= selected_values[2]

\* Mutant of DiscreteKeep: isin on the raw values, without astype(str).
DiscreteKeep_NoStr(v, selected_values) == v \in selected_values

\* df_filtered[col].astype(str).isin(selected_values)
DiscreteKeep(v, selected_values) == Str(v) \in selected_values

\* One turn of the loop over filter_values.items().
ApplyFilter(frame, col, selected_values) ==
    LET Keep(row) ==
            IF col \in DateCols
            THEN DateKeep(row[col], selected_values)
            ELSE DiscreteKeep(row[col], selected_values)
    IN  SelectSeq(frame, Keep)

\* The loop from its k-th column on; the dict keeps the order of filter_cols.
RECURSIVE ApplyFrom(_, _, _)
ApplyFrom(frame, fv, k) ==
    IF k > Len(filter_cols) THEN frame
    ELSE IF filter_cols[k] \in DOMAIN fv
         THEN ApplyFrom(ApplyFilter(frame, filter_cols[k], fv[filter_cols[k]]),
                        fv, k + 1)
         ELSE ApplyFrom(frame, fv, k + 1)

\* Mutant of ApplyFilters: each mask is computed on the unfiltered frame and
\* applied by position to the frame filtered so far.
RECURSIVE ApplyFrom_PositionalMask(_, _, _, _)
ApplyFrom_PositionalMask(orig, frame, fv, k) ==
    IF k > Len(filter_cols) THEN frame
    ELSE IF filter_cols[k] \in DOMAIN fv
         THEN LET col == filter_cols[k]
                  mask == {i \in 1..Len(frame) :
                             IF col \in DateCols
                             THEN /\ orig[i][col] # NaT
                                  /\ orig[i][col] >= fv[col][1]
                                  /\ orig[i][col] <= fv[col][2]
                             ELSE Str(orig[i][col]) \in fv[col]}
                  RECURSIVE Pick(_)
                  Pick(i) ==
                      IF i > Len(frame) THEN <<>>
                      ELSE IF i \in mask THEN <<frame[i]>> \o Pick(i + 1)
                           ELSE Pick(i + 1)
              IN  ApplyFrom_PositionalMask(orig, Pick(1), fv, k + 1)
         ELSE ApplyFrom_PositionalMask(orig, frame, fv, k + 1)

ApplyFilters_PositionalMask(frame, fv) ==
    ApplyFrom_PositionalMask(frame, frame, fv, 1)

ApplyFilters(frame, fv) == ApplyFrom(frame, fv, 1)

----------------------------------------------------------------------------
(* One run of the script *)

NeverRan ==
    [ran |-> FALSE, at |-> 0, invalidated |-> FALSE, fault |-> NoFault,
     outcome |-> "none"]

\* The page when df is not empty: sidebar, count line, three chart panels
\* (drawn only for a non-empty df_filtered) and the detail table.
PageElements(filtered) ==
    {"title", "sidebar", "count", "table"}
    \cup (IF filtered # <<>> THEN {"bar", "pie", "line"} ELSE {})

Script(fault, session, set_col, set_value) ==
    LET r == CachedLoad(fault)
        fv == BuildFilterValues(r.value, session, set_col, set_value)
    IN  /\ fault # NoFault => (faults > 0 /\ ~r.hit)
        /\ ~r.hit => attempts < MaxLoads
        /\ faults' = IF fault = NoFault THEN faults ELSE faults - 1
        /\ cache' = r.entry
        /\ attempts' = IF r.hit THEN attempts ELSE attempts + 1
        /\ last_run' =
             IF r.hit THEN last_run
             ELSE [ran |-> TRUE, at |-> now, invalidated |-> FALSE,
                   fault |-> fault, outcome |-> r.outcome]
        /\ open_conns' =
             [open_conns EXCEPT !["load_data"] =
                 @ + (IF r.opened /\ ~r.closed THEN 1 ELSE 0)]
        /\ df' = r.value
        /\ control' = IF r.value # <<>> THEN Controls(r.value) ELSE <<>>
        /\ filter_values' = IF r.value # <<>> THEN fv ELSE <<>>
        /\ df_filtered' =
             IF r.value # <<>> THEN ApplyFilters(r.value, fv) ELSE <<>>
        /\ ui' =
             IF r.outcome = "raised" THEN {"exception"}
             ELSE IF r.value # <<>>
                  THEN r.msgs \cup PageElements(df_filtered')
                  ELSE r.msgs \cup {"title", "warning"}
        /\ UNCHANGED <<db, now, advances>>

\* A run in a new session: every widget untouched.
PageLoad == \E fault \in Faults : Script(fault, "new", "none", <<>>)

\* The user sets one control of the page, which reruns the script.
Interact ==
    \E col \in DOMAIN filter_values :
      \E v \in UserValues(df, col) \ {filter_values[col]} :
        \E fault \in Faults : Script(fault, "rerun", col, v)

\* Time passes.
Tick ==
    /\ advances < MaxAdvances
    /\ \E d \in {1, TTL - 1} : now' = now + d
    /\ advances' = advances + 1
    /\ UNCHANGED <<db, faults, cache, last_run, attempts, open_conns, df,
                   control, filter_values, df_filtered, ui>>

\* Manual invalidation of the cache (Clear cache / st.cache_data.clear()).
ClearCache ==
    /\ cache.valid
    /\ cache' = NoEntry
    /\ last_run' = [last_run EXCEPT !.invalidated = TRUE]
    /\ UNCHANGED <<db, now, advances, faults, attempts, open_conns, df,
                   control, filter_values, df_filtered, ui>>

----------------------------------------------------------------------------
(* database.run_query, called by MovimientoContenedoresModel.get_all_dataframe *)

RunQueryFaults == {"none", "connect", "execute"}

\* init_connector(), cursor.execute / fetchall, conn.close(): an exception
\* of execute leaves the function before conn.close().
run_query(fault) ==
    /\ fault # "none" => faults > 0
    /\ faults' = IF fault = "none" THEN faults ELSE faults - 1
    /\ open_conns' =
         [open_conns EXCEPT !["run_query"] =
             @ + (IF fault = "execute" THEN 1 ELSE 0)]
    /\ UNCHANGED <<db, now, advances, cache, last_run, attempts, df, control,
                   filter_values, df_filtered, ui>>

get_all_dataframe == \E fault \in RunQueryFaults : run_query(fault)

----------------------------------------------------------------------------
(* The databases the runs are checked on *)

\* A row of movimiento_contenedores from a record of its coded fields.
MkRow(id, f) ==
    [c \in RawCols |-> IF c = "id" THEN id ELSE f[c]]

Lookup1(code, description) == <<<<code, description>>>>

\* Rows for the filter engine: operator, status and both dates vary; the
\* loading port is in the port table, the discharge port is not, the port of
\* registry is in it with a NULL description.
FilterContents ==
    {[operator |-> op, loading_port |-> "MXVER", discharge_port |-> "ZZZ99",
      delivery_port |-> "MXVER", arrival_date |-> arr, departure_date |-> dep,
      status |-> st, full_empty |-> "F", eqd_qual |-> "CN",
      port_register |-> "USHOU"] :
        op \in {"A", "B"}, arr \in 0..MaxDay, dep \in {BadDate, 1},
        st \in {"1"}}

\* Rows for the cache and the connections: only the operator varies.
CacheContents ==
    {[operator |-> op, loading_port |-> "MXVER", discharge_port |-> "ZZZ99",
      delivery_port |-> "MXVER", arrival_date |-> 1, departure_date |-> 1,
      status |-> "1", full_empty |-> "F", eqd_qual |-> "CN",
      port_register |-> "MXVER"] : op \in {"A"}}

\* Rows for the enrichment: every coded field is a key of its lookup ("K1"),
\* not a key ("K2") or NULL.
Codes == {"K1", "K2", Null}

EnrichContents ==
    {[operator |-> "A", loading_port |-> lp, discharge_port |-> dp,
      delivery_port |-> dl, arrival_date |-> 1, departure_date |-> BadDate,
      status |-> st, full_empty |-> fe, eqd_qual |-> eq,
      port_register |-> pr] :
        lp \in Codes, dp \in Codes, dl \in Codes, pr \in Codes,
        st \in Codes, fe \in Codes, eq \in Codes}

\* A lookup table either describes K1 or holds it with a NULL description.
LookupTables == {Lookup1("K1", "D1"), Lookup1("K1", Null)}

Tables(contents, n) ==
    {[i \in 1..n |-> MkRow(i, f[i])] : f \in [1..n -> contents]}

TablesUpTo(contents, n) == UNION {Tables(contents, k) : k \in 0..n}

FixedPorts == <<<<"MXVER", "Veracruz">>, <<"USHOU", Null>>>>

FilterDbs ==
    {[movimientos |-> t,
      estatus_contenedor |-> Lookup1("1", "Activo"),
      contenido_contenedor |-> Lookup1("F", "Lleno"),
      puertosInternacionales |-> FixedPorts,
      calificador_de_equipo |-> Lookup1("CN", "Contenedor")] :
        t \in TablesUpTo(FilterContents, MaxRows)}

CacheDbs ==
    {[movimientos |-> t,
      estatus_contenedor |-> Lookup1("1", "Activo"),
      contenido_contenedor |-> Lookup1("F", "Lleno"),
      puertosInternacionales |-> FixedPorts,
      calificador_de_equipo |-> Lookup1("CN", "Contenedor")] :
        t \in TablesUpTo(CacheContents, MaxRows)}

EnrichDbs ==
    {[movimientos |-> t,
      estatus_contenedor |-> ls,
      contenido_contenedor |-> lc,
      puertosInternacionales |-> lp,
      calificador_de_equipo |-> le] :
        t \in Tables(EnrichContents, 1),
        ls \in LookupTables, lc \in LookupTables, lp \in LookupTables,
        le \in LookupTables}

----------------------------------------------------------------------------
(* Specifications *)

\* The state before the first run: nothing cached, nothing rendered.
InitWith(dbs, budget) ==
    /\ db \in dbs
    /\ now = 0
    /\ advances = 0
    /\ faults = budget
    /\ cache = NoEntry
    /\ last_run = NeverRan
    /\ attempts = 0
    /\ open_conns = [f \in {"load_data", "run_query"} |-> 0]
    /\ df = <<>>
    /\ control = <<>>
    /\ filter_values = <<>>
    /\ df_filtered = <<>>
    /\ ui = {}

\* Another client writes to the database.
DbWrite ==
    /\ db' \in CacheDbs \ {db}
    /\ UNCHANGED <<now, advances, faults, cache, last_run, attempts,
                   open_conns, df, control, filter_values, df_filtered, ui>>

\* The dashboard over time: runs with untouched widgets, the clock, the
\* cache, failures of the server, writers, and the database helper.
Init == InitWith(CacheDbs, MaxFaults)

Next == PageLoad \/ Tick \/ ClearCache \/ DbWrite \/ get_all_dataframe

Spec == Init /\ [][Next]_vars

\* The filter engine: any loaded record set, any setting of the widgets.
InitFilter == InitWith(FilterDbs, 0)

NextFilter == PageLoad \/ Interact

SpecFilter == InitFilter /\ [][NextFilter]_vars

\* Label enrichment: one movement, every combination of codes and lookups.
InitEnrich == InitWith(EnrichDbs, 0)

NextEnrich == PageLoad

SpecEnrich == InitEnrich /\ [][NextEnrich]_vars

----------------------------------------------------------------------------
(* Vocabulary of the properties, stated on the rendered state *)

\* The last run rendered the page of a non-empty df.
PageShown == "sidebar" \in ui

InFiltered(row) == row \in Range(df_filtered)

LabelCols ==
    {"status_", "full_/_empty_", "eqd_-_qual", "port_register_",
     "loading_port_", "discharge_port", "delivery_port"}

\* The row's date in column c lies in the selected inclusive range.
WithinRange(row, c) ==
    /\ row[c] # NaT
    /\ filter_values[c][1] <= row[c]
    /\ row[c] <= filter_values[c][2]

\* The row's stringified value in column c is one of the selected values.
IsSelected(row, c) == Str(row[c]) \in filter_values[c]

Satisfies(row, c) ==
    IF c \in DateCols THEN WithinRange(row, c) ELSE IsSelected(row, c)

SatisfiesOthers(row, c) ==
    \A c2 \in (DOMAIN filter_values) \ {c} : Satisfies(row, c2)

PassesDiscrete(row) == \A c \in DiscreteCols : IsSelected(row, c)

PassesDates(row) ==
    \A c \in DateCols \cap DOMAIN filter_values : WithinRange(row, c)

DatesOf(c) == {df[i][c] : i \in 1..Len(df)} \ {NaT}

\* Every control holds its full selection.
AtDefaults ==
    /\ PageShown
    /\ \A c \in DiscreteCols :
         filter_values[c] = {Str(df[i][c]) : i \in 1..Len(df)}
    /\ \A c \in DateCols \cap DOMAIN filter_values :
         /\ filter_values[c][1] \in DatesOf(c)
         /\ filter_values[c][2] \in DatesOf(c)
         /\ \A d \in DatesOf(c) :
              filter_values[c][1] <= d /\ d <= filter_values[c][2]

----------------------------------------------------------------------------
(* C1 *)

EmptyStateRender ==
    /\ df = <<>>
    /\ "error" \in ui
    /\ "exception" \notin ui
    /\ "warning" \in ui
    /\ ui \cap {"sidebar", "count", "bar", "pie", "line", "table"} = {}

\* C1: whenever the connection or one of the five queries of load_data()
\* failed, load_data() returned an empty record set, the error message is
\* shown, no exception left load_data(), and the page is the empty state:
\* the warning banner and no filter, chart or table.
C1_FailureRendersEmptyState ==
    (last_run.ran /\ last_run.fault # NoFault) => EmptyStateRender

----------------------------------------------------------------------------
(* C2 *)

EmptySelectionYieldsNothing ==
    (\E c \in DiscreteCols : filter_values[c] = {}) => df_filtered = <<>>

\* C2 as stated: a loaded record is in the filtered set iff, for every
\* discrete filter column, its stringified value is in that column's
\* selection; an empty selection on one of them leaves no record.
C2_DiscreteOnlyMembership ==
    PageShown =>
        /\ \A i \in 1..Len(df) : InFiltered(df[i]) <=> PassesDiscrete(df[i])
        /\ EmptySelectionYieldsNothing

\* C2 amended: a loaded record is in the filtered set iff, for every discrete
\* filter column, its stringified value is in that column's selection and,
\* for every date column that has a selected range, its date is non-null and
\* inside the range; the filtered set is the loaded one restricted to these
\* records, in the loaded order, so the constraints combine by AND whatever
\* the order of the passes, and an empty discrete selection leaves no record.
C2_Membership ==
    PageShown =>
        /\ \A i \in 1..Len(df) :
             InFiltered(df[i]) <=> (PassesDiscrete(df[i]) /\ PassesDates(df[i]))
        /\ \A i \in 1..Len(df_filtered) : df_filtered[i] \in Range(df)
        /\ Len(df_filtered) <= Len(df)
        /\ EmptySelectionYieldsNothing

\* Two records, one kept and one rejected by a discrete selection.
C2_Witness ==
    /\ PageShown
    /\ Len(df) = 2
    /\ Len(df_filtered) = 1
    /\ \E i \in 1..Len(df) : ~PassesDiscrete(df[i]) /\ PassesDates(df[i])

----------------------------------------------------------------------------
(* C3 *)

DateFilterKeepsExactlyRange(c) ==
    \A i \in 1..Len(df) :
        /\ InFiltered(df[i]) => WithinRange(df[i], c)
        /\ (WithinRange(df[i], c) /\ SatisfiesOthers(df[i], c))
              => InFiltered(df[i])

----------------------------------------------------------------------------
(* C4 *)

\* The record has a date wherever the column has one at all.
HasDateWhereFiltered(row) ==
    \A c \in DateCols : DatesOf(c) # {} => row[c] # NaT

----------------------------------------------------------------------------
(* C5 *)

RawOf(i) == db.movimientos[df[i]["id"]]

Described(code, table) ==
    \E k \in 1..Len(table) : table[k][1] = code

\* The description of the last row of the table that holds the code.
DescriptionOf(code, table) ==
    table[CHOOSE k \in 1..Len(table) :
             /\ table[k][1] = code
             /\ \A j \in (k + 1)..Len(table) : table[j][1] # code][2]

PortAsClaimed(code) ==
    IF Described(code, db.puertosInternacionales)
    THEN DescriptionOf(code, db.puertosInternacionales)
    ELSE IF code = Null THEN "" ELSE code

LabelAsClaimed(code, table) ==
    IF Described(code, table) THEN DescriptionOf(code, table) ELSE Desconocido

LabelAsAmended(code, table) ==
    IF Described(code, table) /\ DescriptionOf(code, table) # Null
    THEN DescriptionOf(code, table)
    ELSE Desconocido

PortsResolved(i) ==
    /\ df[i]["port_register_"] = PortAsClaimed(RawOf(i)["port_register"])
    /\ df[i]["loading_port_"] = PortAsClaimed(RawOf(i)["loading_port"])
    /\ df[i]["discharge_port"] = PortAsClaimed(RawOf(i)["discharge_port"])
    /\ df[i]["delivery_port"] = PortAsClaimed(RawOf(i)["delivery_port"])

\* C5 as stated: a code that is a key of its lookup resolves to the lookup's
\* description; otherwise status, full/empty and equipment qualifier resolve
\* to 'Desconocido' (also for a null code) and each of the four port columns
\* to the raw code, or to '' for a null code.
C5_ResolutionAsStated ==
    \A i \in 1..Len(df) :
        /\ PortsResolved(i)
        /\ df[i]["status_"] =
              LabelAsClaimed(RawOf(i)["status"], db.estatus_contenedor)
        /\ df[i]["full_/_empty_"] =
              LabelAsClaimed(RawOf(i)["full_empty"], db.contenido_contenedor)
        /\ df[i]["eqd_-_qual"] =
              LabelAsClaimed(RawOf(i)["eqd_qual"], db.calificador_de_equipo)

\* C5 amended: as stated, except that for status, full/empty and equipment
\* qualifier a code whose lookup description is null resolves to
\* 'Desconocido' too (the ports keep the description as it is).
C5_Resolution ==
    \A i \in 1..Len(df) :
        /\ PortsResolved(i)
        /\ df[i]["status_"] =
              LabelAsAmended(RawOf(i)["status"], db.estatus_contenedor)
        /\ df[i]["full_/_empty_"] =
              LabelAsAmended(RawOf(i)["full_empty"], db.contenido_contenedor)
        /\ df[i]["eqd_-_qual"] =
              LabelAsAmended(RawOf(i)["eqd_qual"], db.calificador_de_equipo)

\* A loaded record with a described port, an undescribed one, a null one, a
\* described status and an unknown equipment qualifier.
C5_Witness ==
    /\ Len(df) = 1
    /\ RawOf(1)["port_register"] = "K1" /\ df[1]["port_register_"] = "D1"
    /\ RawOf(1)["loading_port"] = "K2" /\ df[1]["loading_port_"] = "K2"
    /\ RawOf(1)["delivery_port"] = Null /\ df[1]["delivery_port"] = ""
    /\ RawOf(1)["status"] = "K1" /\ df[1]["status_"] = "D1"
    /\ RawOf(1)["eqd_qual"] = "K2" /\ df[1]["eqd_-_qual"] = Desconocido
    /\ RawOf(1)["full_empty"] = Null /\ df[1]["full_/_empty_"] = Desconocido

----------------------------------------------------------------------------
(* C6 *)

\* C6: after a load every record has a non-null value in each derived label
\* field, whatever the lookup tables hold, null descriptions included.
C6_NoMissingLabel ==
    \A i \in 1..Len(df) : \A c \in LabelCols : df[i][c] # Null

----------------------------------------------------------------------------
(* C7 *)

\* load_data() has run, and neither the ttl has passed since nor was the
\* cache invalidated.
WithinTtlOfLastRun ==
    /\ last_run.ran
    /\ ~last_run.invalidated
    /\ now < last_run.at + TTL

\* C7: once load_data() has run, succeeded or failed, nothing that happens
\* before the ttl has passed or the cache was invalidated makes a new
\* connection, and a run in that time shows the snapshot of that load.
C7_NoReloadWithinTtl ==
    [][WithinTtlOfLastRun =>
          (attempts' = attempts /\ (df' # df => df' = cache.value))]_vars

----------------------------------------------------------------------------
(* C8 *)

\* C8: the filter pass run again, with the same selections, on the filtered
\* set returns the filtered set.
C8_Idempotent ==
    PageShown => ApplyFilters(df_filtered, filter_values) = df_filtered

\* A filter that kept some records and rejected others.
C8_Witness ==
    /\ PageShown
    /\ df_filtered # <<>>
    /\ Len(df_filtered) < Len(df)

----------------------------------------------------------------------------
(* C9 *)

\* C9: no connection opened by load_data() or by run_query is open once the
\* function has returned or raised.
C9_NoConnectionLeftOpen ==
    open_conns["load_data"] = 0 /\ open_conns["run_query"] = 0

----------------------------------------------------------------------------
(* C10 *)

====
